---------------------------- MODULE Spec2Model ----------------------------
(***************************************************************************)
(* Model of the CFIS conda launchers (src/python3/conda_launcher and       *)
(* src/python3/launchers/conda) and of the utilities Config, I18n and      *)
(* Logger (src/python3/utils).  Text is a sequence of one-character        *)
(* strings, so that the Python string operations the launcher uses         *)
(* (splitlines, lstrip, strip, startswith, count, find, slicing, join) are *)
(* computed character by character.                                        *)
(***************************************************************************)
EXTENDS Integers, Sequences, FiniteSets, TLC

VARIABLES
  \* Normalizer: the snapshot text, the lines clean_yml_content returns for
  \* it, the text written from them, and that text normalized once more.
  snapshot, cleaned, normalized, renormalized, npc,
  \* Probe: the result of `conda env list`, the name asked for, the answer
  \* of check_environment.
  listing, probe_name, probe_result, ppc,
  \* Launcher run: which launcher, its command line and parsed arguments,
  \* the position in __main__, the declaration file (environment.yml) now and at startup,
  \* the temporary file and the TEMP_ENV_FILE variable, env_name, the
  \* answers of check_conda and check_environment, the last results of
  \* `conda env list` and `conda env export`, the conda commands invoked so
  \* far, the branches of __main__ entered, and the exit code.
  variant, argv, args, pc, declaration, declaration0, temp_file,
  TEMP_ENV_FILE, env_name, conda_ok, env_listing, env_exists, env_export, calls, branches,
  exit_code,
  \* Config: the defaults and user-override documents on disk, whether the
  \* two paths are set, the three cached mappings of the class, the last
  \* operation with its outcome, the merged mapping and the documents as
  \* they were before it, the merged mapping held right after the last
  \* successful update, and how far a re-initialization and reload after
  \* that update has got.
  base_doc, user_doc, paths_set, base_config, user_config, merged_config,
  cop, before, held, phase,
  \* I18n: whether the locales directory exists and the language files in
  \* it, the class attributes _locales_dir, _logger, _translations,
  \* _current_language and _fallback_language, the last call with its
  \* outcome, and the two languages as they were before it.
  locales_exists, language_files, locales_dir, i18n_logger, translations,
  current_language, fallback_language, iop, ibefore,
  \* Logger: the handlers and the level of each named logger of the logging
  \* module, Logger._logger (the name of the logger stored), the last call
  \* with what it returned, the logger the first completed initialization
  \* stored, the number of initializations that raised, and the deliveries
  \* of the last record logged.
  handlers, logger_level, stored_logger, lop, first_logger, failures,
  emitted

normVars == <<snapshot, cleaned, normalized, renormalized, npc>>

probeVars == <<listing, probe_name, probe_result, ppc>>

runVars ==
  <<variant, argv, args, pc, declaration, declaration0, temp_file,
    TEMP_ENV_FILE, env_name, conda_ok, env_listing, env_exists, env_export, calls, branches,
    exit_code>>

configVars ==
  <<base_doc, user_doc, paths_set, base_config, user_config, merged_config,
    cop, before, held, phase>>

i18nVars ==
  <<locales_exists, language_files, locales_dir, i18n_logger, translations,
    current_language, fallback_language, iop, ibefore>>

loggerVars ==
  <<handlers, logger_level, stored_logger, lop, first_logger, failures,
    emitted>>

otherThanNorm == <<probeVars, runVars, configVars, i18nVars, loggerVars>>

otherThanProbe == <<normVars, runVars, configVars, i18nVars, loggerVars>>

otherThanRun == <<normVars, probeVars, configVars, i18nVars, loggerVars>>

otherThanConfig == <<normVars, probeVars, runVars, i18nVars, loggerVars>>

otherThanI18n == <<normVars, probeVars, runVars, configVars, loggerVars>>

otherThanLogger == <<normVars, probeVars, runVars, configVars, i18nVars>>

vars == <<normVars, probeVars, runVars, configVars, i18nVars, loggerVars>>

(***************************************************************************)
(* Bounds of the model.                                                    *)
(***************************************************************************)
\* Largest number of lines of a snapshot text given to the normalizer.
MaxLines == 2
\* Largest number of lines of an environment listing given to the probe.
MaxListing == 2
\* Largest number of lines of an export the package manager returns to a run.
MaxExportLines == 2
\* Largest number of arguments on a launcher's command line.
MaxArgs == 2
\* Number of configuration keys the documents are written over.
MaxKeys == 2
\* Largest number of logger initializations that raise.
MaxFailures == 2

(***************************************************************************)
(* Python str primitives.                                                  *)
(***************************************************************************)
\* Characters at which str.splitlines() breaks a line.
LineBreaks == {"\n", "\r", "\f"}

\* Characters removed by str.strip() / str.lstrip() without arguments.
Whitespace == {" ", "\t", "\n", "\r", "\f"}

\* s[n:] of Python, n >= 0.
Drop(s, n) == IF n >= Len(s) THEN << >> ELSE SubSeq(s, n + 1, Len(s))

\* s[:n] of Python, n >= 0.
Take(s, n) == IF n >= Len(s) THEN s ELSE SubSeq(s, 1, n)

\* " " * n of Python.
Spaces(n) == [i \in 1..n |-> " "]

\* str.startswith(p).
startswith(s, p) == Len(s) >= Len(p) /\ SubSeq(s, 1, Len(p)) = p

\* str.count(c) for a single character c.
count(s, c) == Cardinality({i \in 1..Len(s) : s[i] = c})

\* str.find(c, start) for a single character c: 0-based index, or -1.
find(s, c, start) ==
  LET hits == {i \in start..(Len(s) - 1) : s[i + 1] = c}
  IN  IF hits = {} THEN -1 ELSE CHOOSE i \in hits : \A j \in hits : i <= j

\* str.lstrip().
RECURSIVE lstrip(_)
lstrip(s) ==
  IF s # << >> /\ Head(s) \in Whitespace THEN lstrip(Tail(s)) ELSE s

\* str.rstrip().
RECURSIVE rstrip(_)
rstrip(s) ==
  IF s # << >> /\ s[Len(s)] \in Whitespace
  THEN rstrip(SubSeq(s, 1, Len(s) - 1))
  ELSE s

\* str.strip().
strip(s) == rstrip(lstrip(s))

\* str.splitlines(), scanning from position i (1-based) with the line
\* collected so far in cur and the finished lines in acc.  "\r\n" is one
\* break; a last line is produced only if it is not empty.
RECURSIVE SplitFrom(_, _, _, _)
SplitFrom(s, i, cur, acc) ==
  IF i > Len(s)
  THEN IF cur = << >> THEN acc ELSE Append(acc, cur)
  ELSE IF s[i] \in LineBreaks
       THEN IF s[i] = "\r" /\ i < Len(s) /\ s[i + 1] = "\n"
            THEN SplitFrom(s, i + 2, << >>, Append(acc, cur))
            ELSE SplitFrom(s, i + 1, << >>, Append(acc, cur))
       ELSE SplitFrom(s, i + 1, Append(cur, s[i]), acc)

\* str.splitlines(keepends=True): each line keeps its line break.
RECURSIVE SplitKeepFrom(_, _, _, _)
SplitKeepFrom(s, i, cur, acc) ==
  IF i > Len(s)
  THEN IF cur = << >> THEN acc ELSE Append(acc, cur)
  ELSE IF s[i] \in LineBreaks
       THEN IF s[i] = "\r" /\ i < Len(s) /\ s[i + 1] = "\n"
            THEN SplitKeepFrom(s, i + 2, << >>,
                               Append(acc, cur \o <<"\r", "\n">>))
            ELSE SplitKeepFrom(s, i + 1, << >>, Append(acc, Append(cur, s[i])))
       ELSE SplitKeepFrom(s, i + 1, Append(cur, s[i]), acc)

splitlinesKeepEnds(s) == SplitKeepFrom(s, 1, << >>, << >>)

splitlines(s) == SplitFrom(s, 1, << >>, << >>)

\* The set of elements of a sequence.
Range(s) == {s[i] : i \in 1..Len(s)}

\* "\n".join(lines).
RECURSIVE join(_)
join(lines) ==
  IF lines = << >> THEN << >>
  ELSE IF Len(lines) = 1 THEN lines[1]
  ELSE lines[1] \o <<"\n">> \o join(Tail(lines))

(***************************************************************************)
(* Snapshot normalizer: clean_yml_content.                                 *)
(***************************************************************************)
PrefixKey == <<"p", "r", "e", "f", "i", "x", ":">>

DashSpace == <<"-", " ">>

\* The loop body with the test `eq_count > 2` in place of `eq_count > 1`.
CleanLineThirdEq(line) ==
  LET stripped == lstrip(line)
      first_eq == find(stripped, "=", 0)
      second_eq == find(stripped, "=", first_eq + 1)
      indent == Len(line) - Len(stripped)
  IN  IF startswith(stripped, DashSpace) /\ count(stripped, "=") > 2
      THEN Spaces(indent) \o Take(stripped, second_eq)
      ELSE line

\* The loop body appending the left-trimmed line where it should append
\* the line.
CleanLineStripped(line) ==
  LET stripped == lstrip(line)
      eq_count == count(stripped, "=")
      first_eq == find(stripped, "=", 0)
      second_eq == find(stripped, "=", first_eq + 1)
      indent == Len(line) - Len(stripped)
  IN  IF startswith(stripped, DashSpace) /\ eq_count > 1
      THEN Spaces(indent) \o Take(stripped, second_eq)
      ELSE stripped

\* Body of the loop of clean_yml_content for a line that is not skipped:
\* the line that is appended to cleaned_lines.
CleanLine(line) ==
  LET stripped == lstrip(line)
      eq_count == count(stripped, "=")
      first_eq == find(stripped, "=", 0)
      second_eq == find(stripped, "=", first_eq + 1)
      indent == Len(line) - Len(stripped)
  IN  IF startswith(stripped, DashSpace) /\ eq_count > 0
      THEN IF eq_count > 1
           THEN Spaces(indent) \o Take(stripped, second_eq)
           ELSE line
      ELSE line

\* The loop of clean_yml_content over the lines that remain.
RECURSIVE CleanLines(_)
CleanLines(lines) ==
  IF lines = << >> THEN << >>
  ELSE IF startswith(Head(lines), PrefixKey)
       THEN CleanLines(Tail(lines))
       ELSE <<CleanLine(Head(lines))>> \o CleanLines(Tail(lines))

clean_yml_content(yml_content) == CleanLines(splitlines(yml_content))

\* The text written from cleaned lines: "\n".join(cleaned_lines) + "\n".
WriteText(cleaned_lines) == join(cleaned_lines) \o <<"\n">>

\* save_environment writing the export as it came, not cleaned.
SavedTextRaw(stdout) == stdout

\* What save_environment writes to the declaration for an export's stdout.

SavedText(stdout) == WriteText(clean_yml_content(stdout))

(***************************************************************************)
(* Environment probe: check_environment, and get_environment_name.         *)
(***************************************************************************)
\* The result of a conda command that captures its output: whether it
\* exited with status 0, and its standard output.
Failed == [ok |-> FALSE, stdout |-> << >>]

Succeeded(text) == [ok |-> TRUE, stdout |-> text]

\* check_environment(env_name), given the result of `conda env list`:
\* CalledProcessError gives False.
check_environment(result, name) ==
  /\ result.ok
  /\ \E line \in Range(splitlines(result.stdout)) :
        \/ startswith(strip(line), name \o <<" ">>)
        \/ startswith(strip(line), name \o <<"*">>)

\* The lines a text-mode file yields when iterated: universal newlines, so
\* a line ends at "\n", "\r\n" or "\r" (and not at "\f").
RECURSIVE FileLinesFrom(_, _, _, _)
FileLinesFrom(s, i, cur, acc) ==
  IF i > Len(s)
  THEN IF cur = << >> THEN acc ELSE Append(acc, cur)
  ELSE IF s[i] \in {"\n", "\r"}
       THEN IF s[i] = "\r" /\ i < Len(s) /\ s[i + 1] = "\n"
            THEN FileLinesFrom(s, i + 2, << >>, Append(acc, cur))
            ELSE FileLinesFrom(s, i + 1, << >>, Append(acc, cur))
       ELSE FileLinesFrom(s, i + 1, Append(cur, s[i]), acc)

FileLines(text) == FileLinesFrom(text, 1, << >>, << >>)

NameKey == <<"n", "a", "m", "e", ":">>

\* A file: whether it can be opened, and its content.
NoFile == [exists |-> FALSE, text |-> << >>]

File(text) == [exists |-> TRUE, text |-> text]

\* What get_environment_name returns: None, or a text.
NoName == [found |-> FALSE, name |-> << >>]

\* line.split(":", 1)[1].strip() for a line that holds a ":".
AfterColon(line) == strip(Drop(line, find(line, ":", 0) + 1))

\* get_environment_name(): the value of the first line that, trimmed,
\* starts with "name:"; None if there is none or the file cannot be read.
get_environment_name(file) ==
  LET lines == FileLines(file.text)
      hits == {i \in 1..Len(lines) : startswith(strip(lines[i]), NameKey)}
  IN  IF ~file.exists \/ hits = {}
      THEN NoName
      ELSE [found |-> TRUE,
            name |-> AfterColon(lines[CHOOSE i \in hits :
                                        \A j \in hits : i <= j])]

\* `not env_name` of Python: None or the empty string.
Falsy(n) == ~n.found \/ n.name = << >>

(***************************************************************************)
(* Decisions of __main__.                                                  *)
(***************************************************************************)
\* An option that was not given (None of argparse).
None == "<None>"

\* `if args.install:` of Python: given, and not the empty string.
Truthy(v) == v # None /\ v # ""

\* The branch of __main__ that runs: the if-chain of the full launcher
\* (--install, --uninstall, the positional command, else the normal
\* launch); the basic launcher has the normal launch only.
SelectBranch(v, a) ==
  IF v = "launchers" THEN "default"
  ELSE IF Truthy(a.install) THEN "install"
  ELSE IF Truthy(a.uninstall) THEN "uninstall"
  ELSE IF Truthy(a.command) THEN a.command
  ELSE "default"

\* __main__ saving the environment whatever the install or removal returned.
AfterPackageCommandIgnored(ok) == "save"

\* Where __main__ goes after install_package or uninstall_package.
AfterPackageCommand(ok) == IF ok THEN "save" ELSE "abort"

\* __main__ ending normally whatever the launched program returned.
AfterLaunchIgnored(ok) == "end"

\* Where __main__ goes after the launch: to the end of the script, or to
\* exit(1) when the launched program returned a non-zero status.
AfterLaunch(ok) == IF ok THEN "end" ELSE "abort"

\* __main__ going on to the launch after an update in either launcher.
AfterUpdateLaunching(v) == "launch"

\* Where __main__ goes after a successful update_environment: the full
\* launcher exits with 0, the basic launcher goes on to the launch.
AfterUpdate(v) == IF v = "conda_launcher" THEN "end" ELSE "launch"

\* __main__ going on whatever check_conda answered.
AfterCheckCondaIgnored(ok) == "dispatch"

\* Where __main__ goes after check_conda.
AfterCheckConda(ok) == IF ok THEN "dispatch" ELSE "abort"

\* __main__ installing or uninstalling without requiring the environment.
AfterCheckEnvironmentNoRequire(v, b, a, found) ==
  IF v = "launchers"
  THEN IF ~found THEN "create" ELSE IF a.update THEN "update" ELSE "launch"
  ELSE IF b \in {"install", "uninstall"}
       THEN b
       ELSE IF ~found THEN "create" ELSE "launch"

\* __main__ never creating the environment in the normal launch.
AfterCheckEnvironmentNoCreate(v, b, a, found) ==
  IF v = "launchers"
  THEN IF a.update THEN "update" ELSE "launch"
  ELSE IF b \in {"install", "uninstall"}
       THEN IF found THEN b ELSE "abort"
       ELSE "launch"

\* Where __main__ goes after check_environment answered `found`: the
\* --install and --uninstall branches require the environment, the normal
\* launch of either launcher creates it if it is missing.
AfterCheckEnvironment(v, b, a, found) ==
  IF v = "launchers"
  THEN IF ~found THEN "create" ELSE IF a.update THEN "update" ELSE "launch"
  ELSE IF b \in {"install", "uninstall"}
       THEN IF found THEN b ELSE "abort"
       ELSE IF ~found THEN "create" ELSE "launch"

(***************************************************************************)
(* Snapshot texts given to the normalizer: up to MaxLines lines, each an   *)
(* indentation followed by a body, each but possibly the last terminated.  *)
(***************************************************************************)
Indents == {<< >>, <<" ">>, <<"\t">>}

Bodies ==
  { << >>,
    PrefixKey \o <<" ", "/">>,
    <<"n", "a", "m", "e", ":", " ", "d">>,
    <<"-", " ", "f", "=", "1", "=", "b">>,
    <<"-", " ", "f", "=", "1">>,
    <<"-", " ", "f">>,
    <<"-", "\t", "f", "=", "1", "=", "b">> }

SnapshotLines == {i \o b : i \in Indents, b \in Bodies}

Terminators == {<<"\n">>, <<"\r", "\n">>}

LastTerminators == {<<"\n">>, << >>}

RECURSIVE Concat(_, _, _)
Concat(ls, ts, n) ==
  IF n = 0 THEN << >> ELSE Concat(ls, ts, n - 1) \o ls[n] \o ts[n]

SnapshotTexts ==
  UNION { { Concat(ls, ts, n) :
              ls \in [1..n -> SnapshotLines],
              ts \in { t \in [1..n -> Terminators \cup LastTerminators] :
                         /\ \A k \in 1..(n - 1) : t[k] \in Terminators
                         /\ n > 0 => t[n] \in LastTerminators } }
          : n \in 0..MaxLines }

(***************************************************************************)
(* Environment listings given to the probe: up to MaxListing lines, each a *)
(* name with leading and trailing text, and the names asked for.           *)
(***************************************************************************)
Myenv == <<"m", "y", "e", "n", "v">>

ListedNames == {Myenv, Myenv \o <<"f", "o", "o">>, <<"b">>}

Leads == {<< >>, <<" ">>}

Tails ==
  {<< >>, <<" ">>, <<" ", "*">>, <<"*">>, <<" ", "/", "p">>, <<"\t", "/", "p">>}

ListingLines == {l \o n \o t : l \in Leads, n \in ListedNames, t \in Tails}

RECURSIVE Lines(_, _)
Lines(ls, n) == IF n = 0 THEN << >> ELSE Lines(ls, n - 1) \o ls[n] \o <<"\n">>

ListingTexts ==
  UNION { {Lines(ls, n) : ls \in [1..n -> ListingLines]} : n \in 0..MaxListing }

ListingResults == {Failed} \cup {Succeeded(t) : t \in ListingTexts}

ProbeNames == {Myenv, <<"b">>}

(***************************************************************************)
(* Inputs of a launcher run.                                               *)
(***************************************************************************)
Variants == {"conda_launcher", "launchers"}

\* The words a command line is made of.  The full launcher: its two
\* options, a package name (or any other plain word), the empty word, its
\* two commands, and an option it does not know.  The basic launcher: its
\* option, an option it does not know, a plain word.
Words(v) ==
  IF v = "conda_launcher"
  THEN {"--install", "--uninstall", "numpy", "", "save_environment",
        "update_environment", "--debug"}
  ELSE {"--update", "--debug", "numpy"}

\* The command lines given to a launcher.
Argvs(v) == UNION { [1..n -> Words(v)] : n \in 0..MaxArgs }

\* Words that begin with "-": argparse takes them for options.
OptionStrings == {"--install", "--uninstall", "--update", "--debug"}

\* The choices of the positional command of the full launcher.
Choices == {"update_environment", "save_environment"}

\* The namespace before any argument is parsed: the defaults.
NoArgs ==
  [install |-> None, uninstall |-> None, command |-> None, update |-> FALSE,
   unknown_args |-> << >>]

\* A usage error of argparse: the message is printed and the process exits
\* with status 2.
UsageError == [ok |-> FALSE, code |-> 2, args |-> NoArgs]

\* parser.parse_known_args() of the full launcher from word i on, with
\* the namespace and the unknown arguments collected so far in a.  --install
\* and --uninstall take the next word, which must not be an option; the
\* first plain word is the command and must be one of the choices; every
\* other word is unknown.
RECURSIVE ParseFull(_, _, _)
ParseFull(words, i, a) ==
  IF i > Len(words) THEN [ok |-> TRUE, code |-> 0, args |-> a]
  ELSE LET w == words[i]
       IN  IF w \in {"--install", "--uninstall"}
           THEN IF i < Len(words) /\ words[i + 1] \notin OptionStrings
                THEN ParseFull(words, i + 2,
                       IF w = "--install"
                       THEN [a EXCEPT !.install = words[i + 1]]
                       ELSE [a EXCEPT !.uninstall = words[i + 1]])
                ELSE UsageError
           ELSE IF w \in OptionStrings \/ a.command # None
                THEN ParseFull(words, i + 1,
                       [a EXCEPT !.unknown_args = Append(@, w)])
                ELSE IF w \in Choices
                     THEN ParseFull(words, i + 1, [a EXCEPT !.command = w])
                     ELSE UsageError

\* parser.parse_known_args() of the basic launcher: --update is a flag,
\* every other word is unknown.
RECURSIVE ParseBasic(_, _, _)
ParseBasic(words, i, a) ==
  IF i > Len(words) THEN [ok |-> TRUE, code |-> 0, args |-> a]
  ELSE IF words[i] = "--update"
       THEN ParseBasic(words, i + 1, [a EXCEPT !.update = TRUE])
       ELSE ParseBasic(words, i + 1,
              [a EXCEPT !.unknown_args = Append(@, words[i])])

parse_known_args(v, words) ==
  IF v = "conda_launcher"
  THEN ParseFull(words, 1, NoArgs)
  ELSE ParseBasic(words, 1, NoArgs)

\* Declarations found on disk at startup: "name: d" with a dependency;
\* one written by hand with a prefix and a build; one without a name; one
\* with an empty name; and no readable file.
Declarations ==
  { File(<<"n", "a", "m", "e", ":", " ", "d", "\n",
           "-", " ", "f", "=", "1", "\n">>),
    File(PrefixKey \o <<" ", "/", "\r", "\n">> \o
         <<" ", "n", "a", "m", "e", ":", "d", " ", "\n",
           "-", " ", "f", "=", "1", "=", "b", "\n">>),
    File(<<"-", " ", "f", "=", "1", "\n">>),
    File(<<"n", "a", "m", "e", ":", " ", "\n">>),
    NoFile }

\* What `conda env list` answers to a run: failure, a listing with the
\* environment d, a listing with another environment.
EnvListings ==
  { Failed,
    Succeeded(<<"d", " ", "/", "p", "\n">>),
    Succeeded(<<"d", "f", " ", "/", "p", "\n">>) }

ExportLines ==
  { PrefixKey \o <<" ", "/">>,
    <<"n", "a", "m", "e", ":", " ", "d">>,
    <<"-", " ", "f", "=", "1", "=", "b">>,
    <<"\t", "-", " ", "f", "=", "=", "1">>,
    <<" ", "-", " ", "f", "=", "1">> }

ExportTexts ==
  UNION { {Lines(ls, n) : ls \in [1..n -> ExportLines]}
          : n \in 0..MaxExportLines }

\* What `conda env export` answers to a run.
ExportResults == {Failed} \cup {Succeeded(t) : t \in ExportTexts}

(***************************************************************************)
(* Config (src/python3/utils/config.py): documents are JSON objects, here  *)
(* mappings from keys to values.                                           *)
(***************************************************************************)
KeyNames == <<"log_folder", "project_name", "theme">>

Keys == {KeyNames[i] : i \in 1..MaxKeys}

Values == {"a", "b"}

\* The JSON objects over the keys.
Mappings == UNION {[d -> Values] : d \in SUBSET Keys}

\* {}
EmptyMapping == << >>

\* A document on disk: missing, or holding a mapping.
NoDoc == [exists |-> FALSE, data |-> EmptyMapping]

Doc(m) == [exists |-> TRUE, data |-> m]

Docs == {NoDoc} \cup {Doc(m) : m \in Mappings}

\* A cached mapping of the class: None, or a dict.
NoneConfig == [loaded |-> FALSE, data |-> EmptyMapping]

Cached(m) == [loaded |-> TRUE, data |-> m]

\* init_config creating a document that does not exist, with {}.
Created(doc) == IF doc.exists THEN doc ELSE Doc(EmptyMapping)

\* The merge of get() with the defaults winning over the user's values.
OverlayBaseWins(base, user) ==
  [k \in DOMAIN base \cup DOMAIN user |->
     IF k \in DOMAIN base THEN base[k] ELSE user[k]]

\* merged = base.copy(); merged.update(user).
Overlay(base, user) ==
  [k \in DOMAIN base \cup DOMAIN user |->
     IF k \in DOMAIN user THEN user[k] ELSE base[k]]

\* update() writing the whole merged mapping to the user document.
UserConfigDataAll(merged, base) == merged

\* user_config_data of update(): the items of merged whose key is in the
\* defaults with another value.
UserConfigData(merged, base) ==
  [k \in {k \in DOMAIN merged : k \in DOMAIN base /\ base[k] # merged[k]} |->
     merged[k]]

\* The state of the class and of the two documents, as one record.
ConfigState ==
  [base_doc |-> base_doc, user_doc |-> user_doc, paths_set |-> paths_set,
   base_config |-> base_config, user_config |-> user_config,
   merged_config |-> merged_config]

\* init_config(): the paths are set, a missing document is created, the
\* cached mappings are reset.
init_config(c) ==
  [c EXCEPT !.paths_set = TRUE,
            !.base_doc = Created(@),
            !.user_doc = Created(@),
            !.base_config = NoneConfig,
            !.user_config = NoneConfig,
            !.merged_config = NoneConfig]

\* The first part of get(): when nothing is cached, set the paths if they
\* are not set, load the defaults, and merge the user document into them
\* if it exists.  The documents exist once the paths are set.
LoadConfig(c) ==
  IF c.merged_config.loaded THEN c
  ELSE LET i == IF c.paths_set THEN c ELSE init_config(c)
           user == IF i.user_doc.exists THEN i.user_doc.data ELSE EmptyMapping
       IN  [i EXCEPT !.base_config = Cached(i.base_doc.data),
                     !.user_config = Cached(user),
                     !.merged_config = Cached(Overlay(i.base_doc.data, user))]

\* The last operation: its name, its arguments, its outcome, and what get
\* returned (the whole mapping, or one value).
Operation(op, key, value, outcome, all, one) ==
  [op |-> op, key |-> key, value |-> value, outcome |-> outcome,
   all |-> all, one |-> one]

\* The merged mapping as get() would return it, and the documents.
Snapshot(c) ==
  [merged |-> LoadConfig(c).merged_config.data,
   base |-> c.base_doc.data,
   user |-> c.user_doc.data]

ConfigInit ==
  /\ base_doc \in Docs
  /\ user_doc \in Docs
  /\ paths_set = FALSE
  /\ base_config = NoneConfig
  /\ user_config = NoneConfig
  /\ merged_config = NoneConfig
  /\ cop = Operation("none", None, None, "ok", EmptyMapping, None)
  /\ before = [merged |-> EmptyMapping, base |-> EmptyMapping,
               user |-> EmptyMapping]
  /\ held = EmptyMapping
  /\ phase = "none"

ConfigIdle ==
  /\ base_doc = NoDoc
  /\ user_doc = NoDoc
  /\ paths_set = FALSE
  /\ base_config = NoneConfig
  /\ user_config = NoneConfig
  /\ merged_config = NoneConfig
  /\ cop = Operation("idle", None, None, "ok", EmptyMapping, None)
  /\ before = [merged |-> EmptyMapping, base |-> EmptyMapping,
               user |-> EmptyMapping]
  /\ held = EmptyMapping
  /\ phase = "idle"


(***************************************************************************)
(* I18n (src/python3/utils/i18n.py): a language file is missing, is not    *)
(* JSON, or holds a table from keys to texts.                              *)
(***************************************************************************)
\* _DEFAULT_LANGUAGE
DefaultLanguage == "en"

\* Language codes: two with texts, and one more the system may report.
Codes == {"en", "es", "fr"}

TranslationKeys == {"hello", "bye"}

\* The texts of each language.
Texts ==
  [en |-> [hello |-> "Hello", bye |-> "Bye"],
   es |-> [hello |-> "Hola", bye |-> "Adios"],
   fr |-> [hello |-> "Salut", bye |-> "Au revoir"]]

\* The language files: missing, not JSON, or a table over some of the keys.
Missing == [state |-> "missing", table |-> << >>]

Invalid == [state |-> "invalid", table |-> << >>]

Table(code, keys) ==
  [state |-> "table", table |-> [k \in keys |-> Texts[code][k]]]

LanguageFiles(code) ==
  IF code = "fr" THEN {Missing}
  ELSE {Missing, Invalid} \cup {Table(code, d) : d \in SUBSET TranslationKeys}

\* locales_dir / f"{language_code}.json" as _load_language finds it.
LanguageFile(exists, files, code) == IF exists THEN files[code] ELSE Missing

\* _load_language(language_code): the new _translations, or the exception.
load_language(exists, files, tr, code) ==
  LET file == LanguageFile(exists, files, code)
  IN  IF file.state = "missing"
      THEN [outcome |-> "FileNotFoundError", translations |-> tr]
      ELSE IF file.state = "invalid"
           THEN [outcome |-> "ValueError", translations |-> tr]
           ELSE [outcome |-> "ok",
                 translations |->
                   [c \in DOMAIN tr \cup {code} |->
                      IF c = code THEN file.table ELSE tr[c]]]

\* _configure_languages(language, fallback_language): each language is
\* loaded unless it is cached; only then are the two languages set.
configure_languages(exists, files, tr, cur, fb, language, fallback) ==
  LET first == IF language \in DOMAIN tr
               THEN [outcome |-> "ok", translations |-> tr]
               ELSE load_language(exists, files, tr, language)
      second == IF first.outcome # "ok" \/ fallback \in DOMAIN first.translations
                THEN first
                ELSE load_language(exists, files, first.translations, fallback)
  IN  [outcome |-> second.outcome,
       translations |-> second.translations,
       current |-> IF second.outcome = "ok" THEN language ELSE cur,
       fallback |-> IF second.outcome = "ok" THEN fallback ELSE fb]

\* The languages get_system_language can return.
SystemLanguages == Codes

\* t(key): the text returned, or the exception raised where the warning
\* is logged while _logger is None.
t(tr, cur, fb, logger, key) ==
  IF cur # None /\ cur \in DOMAIN tr /\ key \in DOMAIN tr[cur]
  THEN [outcome |-> "ok", result |-> tr[cur][key]]
  ELSE IF logger = None
       THEN [outcome |-> "AttributeError", result |-> None]
       ELSE IF fb # None /\ fb \in DOMAIN tr /\ key \in DOMAIN tr[fb]
            THEN [outcome |-> "ok", result |-> tr[fb][key]]
            ELSE [outcome |-> "ok", result |-> key]

I18nCall(op, key, outcome, result) ==
  [op |-> op, key |-> key, outcome |-> outcome, result |-> result]

I18nInit ==
  /\ locales_exists \in BOOLEAN
  /\ language_files \in
       {f \in [Codes -> UNION {LanguageFiles(c) : c \in Codes}] :
          \A c \in Codes : f[c] \in LanguageFiles(c)}
  /\ locales_exists = FALSE => \A c \in Codes : language_files[c] = Missing
  /\ locales_dir = None
  /\ i18n_logger = None
  /\ translations = << >>
  /\ current_language = None
  /\ fallback_language = None
  /\ iop = I18nCall("none", None, "ok", None)
  /\ ibefore = [current |-> None, fallback |-> None]

I18nIdle ==
  /\ locales_exists = FALSE
  /\ language_files = [c \in Codes |-> Missing]
  /\ locales_dir = None
  /\ i18n_logger = None
  /\ translations = << >>
  /\ current_language = None
  /\ fallback_language = None
  /\ iop = I18nCall("idle", None, "ok", None)
  /\ ibefore = [current |-> None, fallback |-> None]

(***************************************************************************)
(* Logger (src/python3/utils/logger.py) over the logging module: a logger  *)
(* per name, each with its level and its list of handlers.                 *)
(***************************************************************************)
\* The levels of the logging module, in increasing order.
LevelNames == <<"NOTSET", "DEBUG", "INFO", "WARNING", "ERROR", "CRITICAL">>

LevelNo(level) == CHOOSE i \in 1..Len(LevelNames) : LevelNames[i] = level

\* The names, levels and file paths given to init_logger; the levels of
\* the records logged.
LoggerNames == {"logger", "app"}

InitLevels == {"DEBUG", "ERROR"}

FilePaths == {None, "app.log"}

RecordLevels == {"DEBUG", "INFO", "WARNING", "ERROR", "CRITICAL"}

\* A handler: the stream or file it writes to, its level, and whether it
\* has the filter that passes only records below ERROR.
Handler(target, level, below_error) ==
  [target |-> target, level |-> level, below_error |-> below_error]

stdout_handler == Handler("stdout", "NOTSET", TRUE)

stderr_handler == Handler("stderr", "ERROR", FALSE)

file_handler(level) == Handler("file", level, FALSE)

\* The console handlers init_logger adds, in order.
ConsoleHandlers == <<stdout_handler, stderr_handler>>

\* Handler.handle: the record passes the handler's filter and level.
Passes(h, level) ==
  /\ h.below_error => LevelNo(level) < LevelNo("ERROR")
  /\ LevelNo(level) >= LevelNo(h.level)

\* Logger.log(level, ...): the number of times the record is written to
\* each target; none when the level is below the logger's.
Deliveries(hs, logger_lvl, level) ==
  [target \in {"stdout", "stderr", "file"} |->
     IF LevelNo(level) < LevelNo(logger_lvl) THEN 0
     ELSE Cardinality({i \in 1..Len(hs) :
                         hs[i].target = target /\ Passes(hs[i], level)})]

LoggerCall(op, outcome, returned) ==
  [op |-> op, outcome |-> outcome, returned |-> returned]

NoRecord ==
  [level |-> None, handled |-> FALSE,
   count |-> [target \in {"stdout", "stderr", "file"} |-> 0]]

LoggerInit ==
  /\ handlers = [n \in LoggerNames |-> << >>]
  /\ logger_level = [n \in LoggerNames |-> "NOTSET"]
  /\ stored_logger = None
  /\ lop = LoggerCall("none", "ok", None)
  /\ first_logger = None
  /\ failures = 0
  /\ emitted = NoRecord

LoggerIdle ==
  /\ handlers = [n \in LoggerNames |-> << >>]
  /\ logger_level = [n \in LoggerNames |-> "NOTSET"]
  /\ stored_logger = None
  /\ lop = LoggerCall("idle", "ok", None)
  /\ first_logger = None
  /\ failures = 0
  /\ emitted = NoRecord

(***************************************************************************)
(* Initial states.                                                         *)
(***************************************************************************)
NormInit ==
  /\ snapshot \in SnapshotTexts
  /\ cleaned = << >>
  /\ normalized = << >>
  /\ renormalized = << >>
  /\ npc = "input"

NormIdle ==
  /\ snapshot = << >>
  /\ cleaned = << >>
  /\ normalized = << >>
  /\ renormalized = << >>
  /\ npc = "idle"

ProbeInit ==
  /\ listing \in ListingResults
  /\ probe_name \in ProbeNames
  /\ probe_result = FALSE
  /\ ppc = "input"

ProbeIdle ==
  /\ listing = Failed
  /\ probe_name = << >>
  /\ probe_result = FALSE
  /\ ppc = "idle"

RunInit ==
  /\ variant \in Variants
  /\ argv \in Argvs(variant)
  /\ args = NoArgs
  /\ pc = "parse"
  /\ declaration \in Declarations
  /\ declaration0 = declaration
  /\ temp_file = NoFile
  /\ TEMP_ENV_FILE = FALSE
  /\ env_name = NoName
  /\ conda_ok = "unknown"
  /\ env_listing = Failed
  /\ env_exists = "unknown"
  /\ env_export = Failed
  /\ calls = << >>
  /\ branches = {}
  /\ exit_code = -1

RunIdle ==
  /\ variant = "conda_launcher"
  /\ argv = << >>
  /\ args = NoArgs
  /\ pc = "idle"
  /\ declaration = NoFile
  /\ declaration0 = NoFile
  /\ temp_file = NoFile
  /\ TEMP_ENV_FILE = FALSE
  /\ env_name = NoName
  /\ conda_ok = "unknown"
  /\ env_listing = Failed
  /\ env_exists = "unknown"
  /\ env_export = Failed
  /\ calls = << >>
  /\ branches = {}
  /\ exit_code = -1

(***************************************************************************)
(* The normalizer applied.                                                 *)
(***************************************************************************)
\* normalize(x): clean_yml_content, then the lines rejoined and written.
Normalize ==
  /\ npc = "input"
  /\ cleaned' = clean_yml_content(snapshot)
  /\ normalized' = WriteText(cleaned')
  /\ npc' = "normalized"
  /\ UNCHANGED <<snapshot, renormalized, otherThanNorm>>

\* normalize(normalize(x)).
Renormalize ==
  /\ npc = "normalized"
  /\ renormalized' = WriteText(clean_yml_content(normalized))
  /\ npc' = "renormalized"
  /\ UNCHANGED <<snapshot, cleaned, normalized, otherThanNorm>>

NormNext == Normalize \/ Renormalize

InitNorm == NormInit /\ ProbeIdle /\ RunIdle /\ ConfigIdle /\ I18nIdle /\ LoggerIdle

SpecNorm == InitNorm /\ [][NormNext]_vars

(***************************************************************************)
(* The probe applied.                                                      *)
(***************************************************************************)
ProbeEnvironment ==
  /\ ppc = "input"
  /\ probe_result' = check_environment(listing, probe_name)
  /\ ppc' = "probed"
  /\ UNCHANGED <<listing, probe_name, otherThanProbe>>

ProbeNext == ProbeEnvironment

InitProbe == ProbeInit /\ NormIdle /\ RunIdle /\ ConfigIdle /\ I18nIdle /\ LoggerIdle

SpecProbe == InitProbe /\ [][ProbeNext]_vars


(***************************************************************************)
(* A launcher run: __main__ of either launcher, one action per step.       *)
(***************************************************************************)
\* A conda command invoked: the subcommand, what it was given, whether it
\* exited with status 0.
Call(cmd, arg, ok) == [cmd |-> cmd, arg |-> arg, ok |-> ok]

YesNo(b) == IF b THEN "yes" ELSE "no"

\* The branch of the full launcher that is running.
Branch == IF branches = {} THEN "default" ELSE CHOOSE b \in branches : TRUE

\* exit(code), or the end of the script (code 0), or an unhandled exception
\* (code 1): inside the try block of the full launcher the finally block
\* runs first; the basic launcher has none.
Exit(code) ==
  /\ pc' = IF variant = "conda_launcher" THEN "finally" ELSE "exited"
  /\ exit_code' = code

\* args, unknown_args = parser.parse_known_args(): a usage error ends the
\* process at once, before anything else is done.
ParseArguments ==
  /\ pc = "parse"
  /\ LET r == parse_known_args(variant, argv)
     IN  /\ args' = r.args
         /\ pc' = IF ~r.ok THEN "exited"
                  ELSE IF variant = "conda_launcher" THEN "load"
                  ELSE "check_conda"
         /\ exit_code' = IF r.ok THEN exit_code ELSE r.code
  /\ UNCHANGED <<variant, argv, declaration, declaration0, temp_file,
                 TEMP_ENV_FILE, env_name, conda_ok, env_listing, env_exists,
                 env_export, calls, branches>>
  /\ UNCHANGED otherThanRun

\* load_and_clean_environment_file() and the test of its result: the
\* declaration is read, cleaned, and written to a new temporary file.  An
\* exception at any point returns None, and exit(1) follows before the try
\* block is entered; the exception may come after the file was created.
LoadAndCleanEnvironmentFile ==
  /\ pc = "load"
  /\ \E outcome \in {"read_failed", "create_failed", "write_failed", "ok"} :
       /\ (outcome = "read_failed") = ~declaration.exists
       /\ temp_file' =
            CASE outcome = "ok" ->
                   File(WriteText(clean_yml_content(declaration.text)))
              [] outcome = "write_failed" -> File(<< >>)
              [] OTHER -> temp_file
       /\ TEMP_ENV_FILE' = (outcome = "ok")
       /\ pc' = IF outcome = "ok" THEN "check_conda" ELSE "exited"
       /\ exit_code' = IF outcome = "ok" THEN exit_code ELSE 1
  /\ UNCHANGED <<variant, args, declaration, declaration0, env_name, conda_ok,
                 env_listing, env_exists, calls, branches>>
  /\ UNCHANGED <<argv, env_export, otherThanRun>>

\* check_conda() and the test of its result.
CheckConda ==
  /\ pc = "check_conda"
  /\ \E ok \in BOOLEAN :
       /\ calls' = Append(calls, Call("--version", << >>, ok))
       /\ conda_ok' = YesNo(ok)
       /\ IF AfterCheckConda(ok) = "abort"
          THEN Exit(1)
          ELSE /\ pc' = IF variant = "conda_launcher"
                        THEN "dispatch" ELSE "get_name"
               /\ UNCHANGED exit_code
  /\ UNCHANGED <<variant, args, declaration, declaration0, temp_file,
                 TEMP_ENV_FILE, env_name, env_listing, env_exists, branches>>
  /\ UNCHANGED <<argv, env_export, otherThanRun>>

\* The if-chain of the full launcher.
Dispatch ==
  /\ pc = "dispatch"
  /\ branches' = branches \cup {SelectBranch(variant, args)}
  /\ pc' = IF SelectBranch(variant, args) = "update_environment"
           THEN "update" ELSE "get_name"
  /\ UNCHANGED <<variant, args, declaration, declaration0, temp_file,
                 TEMP_ENV_FILE, env_name, conda_ok, env_listing, env_exists,
                 calls, exit_code>>
  /\ UNCHANGED <<argv, env_export, otherThanRun>>

\* env_name = get_environment_name() and the test of its result.
GetEnvironmentName ==
  /\ pc = "get_name"
  /\ env_name' = get_environment_name(declaration)
  /\ IF Falsy(env_name')
     THEN Exit(1)
     ELSE /\ pc' = IF Branch = "save_environment" THEN "save" ELSE "check_env"
          /\ UNCHANGED exit_code
  /\ UNCHANGED <<variant, args, declaration, declaration0, temp_file,
                 TEMP_ENV_FILE, conda_ok, env_listing, env_exists, calls,
                 branches>>
  /\ UNCHANGED <<argv, env_export, otherThanRun>>

\* check_environment(env_name) and the test of its result.
CheckEnvironment ==
  /\ pc = "check_env"
  /\ \E result \in EnvListings :
       LET found == check_environment(result, env_name.name)
           next == AfterCheckEnvironment(variant, Branch, args, found)
       IN  /\ calls' = Append(calls, Call("env list", << >>, result.ok))
           /\ env_listing' = result
           /\ env_exists' = YesNo(found)
           /\ IF next = "abort"
              THEN Exit(1)
              ELSE pc' = next /\ UNCHANGED exit_code
  /\ UNCHANGED <<variant, args, declaration, declaration0, temp_file,
                 TEMP_ENV_FILE, env_name, conda_ok, branches>>
  /\ UNCHANGED <<argv, env_export, otherThanRun>>

\* install_package(env_name, args.install) and the test of its result.
InstallPackage ==
  /\ pc = "install"
  /\ \E ok \in BOOLEAN :
       /\ calls' = Append(calls, Call("install", <<args.install>>, ok))
       /\ IF AfterPackageCommand(ok) = "abort"
          THEN Exit(1)
          ELSE pc' = AfterPackageCommand(ok) /\ UNCHANGED exit_code
  /\ UNCHANGED <<variant, args, declaration, declaration0, temp_file,
                 TEMP_ENV_FILE, env_name, conda_ok, env_listing, env_exists,
                 branches>>
  /\ UNCHANGED <<argv, env_export, otherThanRun>>

\* uninstall_package(env_name, args.uninstall) and the test of its result.
UninstallPackage ==
  /\ pc = "uninstall"
  /\ \E ok \in BOOLEAN :
       /\ calls' = Append(calls, Call("remove", <<args.uninstall>>, ok))
       /\ IF AfterPackageCommand(ok) = "abort"
          THEN Exit(1)
          ELSE pc' = AfterPackageCommand(ok) /\ UNCHANGED exit_code
  /\ UNCHANGED <<variant, args, declaration, declaration0, temp_file,
                 TEMP_ENV_FILE, env_name, conda_ok, env_listing, env_exists,
                 branches>>
  /\ UNCHANGED <<argv, env_export, otherThanRun>>

\* save_environment(env_name) and the test of its result, then exit(0):
\* the export, cleaned, overwrites the declaration.  A failed export
\* returns False; a declaration that cannot be opened for writing raises
\* an exception nothing handles.
SaveEnvironment ==
  /\ pc = "save"
  /\ \E result \in ExportResults, writable \in BOOLEAN :
       /\ calls' = Append(calls, Call("env export", << >>, result.ok))
       /\ env_export' = result
       /\ IF result.ok /\ writable
          THEN declaration' = File(SavedText(result.stdout)) /\ Exit(0)
          ELSE UNCHANGED declaration /\ Exit(1)
  /\ UNCHANGED <<variant, args, declaration0, temp_file, TEMP_ENV_FILE,
                 env_name, conda_ok, env_listing, env_exists, branches>>
  /\ UNCHANGED <<argv, otherThanRun>>

\* The file create_environment and update_environment are given: the
\* temporary file in the full launcher, the declaration in the basic one.
EnvFile == IF variant = "conda_launcher" THEN "TEMP_ENV_FILE" ELSE "ENVIRONMENT_FILE"

\* create_environment(env_file) and the test of its result.
CreateEnvironment ==
  /\ pc = "create"
  /\ \E ok \in BOOLEAN :
       /\ calls' = Append(calls, Call("env create", <<EnvFile>>, ok))
       /\ IF ok
          THEN /\ pc' = IF variant = "launchers" /\ args.update
                        THEN "update" ELSE "launch"
               /\ UNCHANGED exit_code
          ELSE Exit(1)
  /\ UNCHANGED <<variant, args, declaration, declaration0, temp_file,
                 TEMP_ENV_FILE, env_name, conda_ok, env_listing, env_exists,
                 branches>>
  /\ UNCHANGED <<argv, env_export, otherThanRun>>

\* update_environment(env_file) and the test of its result: the full
\* launcher then exits with 0, the basic launcher goes on to the launch.
UpdateEnvironment ==
  /\ pc = "update"
  /\ \E ok \in BOOLEAN :
       /\ calls' = Append(calls, Call("env update", <<EnvFile>>, ok))
       /\ IF ~ok THEN Exit(1)
          ELSE IF AfterUpdate(variant) = "end" THEN Exit(0)
          ELSE pc' = AfterUpdate(variant) /\ UNCHANGED exit_code
  /\ UNCHANGED <<variant, args, declaration, declaration0, temp_file,
                 TEMP_ENV_FILE, env_name, conda_ok, env_listing, env_exists,
                 branches>>
  /\ UNCHANGED <<argv, env_export, otherThanRun>>

\* The launch: conda run ... python main.py with the unknown arguments; a
\* non-zero status gives exit(1), otherwise the script ends.
Launch ==
  /\ pc = "launch"
  /\ \E ok \in BOOLEAN :
       /\ calls' = Append(calls, Call("run", args.unknown_args, ok))
       /\ Exit(IF AfterLaunch(ok) = "abort" THEN 1 ELSE 0)
  /\ UNCHANGED <<variant, args, declaration, declaration0, temp_file,
                 TEMP_ENV_FILE, env_name, conda_ok, env_listing, env_exists,
                 branches>>
  /\ UNCHANGED <<argv, env_export, otherThanRun>>

\* The finally block of the full launcher, then the process ends.
Finally ==
  /\ pc = "finally"
  /\ temp_file' = IF TEMP_ENV_FILE /\ temp_file.exists THEN NoFile ELSE temp_file
  /\ pc' = "exited"
  /\ UNCHANGED <<variant, args, declaration, declaration0, TEMP_ENV_FILE,
                 env_name, conda_ok, env_listing, env_exists, calls, branches,
                 exit_code>>
  /\ UNCHANGED <<argv, env_export, otherThanRun>>

Next ==
  \/ ParseArguments
  \/ LoadAndCleanEnvironmentFile
  \/ CheckConda
  \/ Dispatch
  \/ GetEnvironmentName
  \/ CheckEnvironment
  \/ InstallPackage
  \/ UninstallPackage
  \/ SaveEnvironment
  \/ CreateEnvironment
  \/ UpdateEnvironment
  \/ Launch
  \/ Finally

Init == RunInit /\ NormIdle /\ ProbeIdle /\ ConfigIdle /\ I18nIdle /\ LoggerIdle

Spec == Init /\ [][Next]_vars

(***************************************************************************)
(* Config: init_config, get and update, called in any order.               *)
(***************************************************************************)
\* The class and the documents become those of the record c.
ConfigBecomes(c) ==
  /\ base_doc' = c.base_doc
  /\ user_doc' = c.user_doc
  /\ paths_set' = c.paths_set
  /\ base_config' = c.base_config
  /\ user_config' = c.user_config
  /\ merged_config' = c.merged_config

\* Config.init_config(base_config_path, user_config_path), with the paths
\* of the two documents.
InitConfig ==
  /\ phase # "idle"
  /\ ConfigBecomes(init_config(ConfigState))
  /\ cop' = Operation("init_config", None, None, "ok", EmptyMapping, None)
  /\ before' = Snapshot(ConfigState)
  /\ phase' = IF phase = "none" THEN "none" ELSE "reinit"
  /\ UNCHANGED held
  /\ UNCHANGED otherThanConfig

\* Config.get(key): key None returns the merged mapping; a key that is not
\* in it raises KeyError.
Get ==
  /\ phase # "idle"
  /\ \E key \in Keys \cup {None} :
       LET c == LoadConfig(ConfigState)
           merged == c.merged_config.data
       IN  /\ ConfigBecomes(c)
           /\ cop' = IF key = None
                     THEN Operation("get", key, None, "ok", merged, None)
                     ELSE IF key \notin DOMAIN merged
                          THEN Operation("get", key, None, "KeyError",
                                         EmptyMapping, None)
                          ELSE Operation("get", key, None, "ok", EmptyMapping,
                                         merged[key])
  /\ before' = Snapshot(ConfigState)
  /\ phase' = IF phase = "reinit" THEN "reloaded" ELSE phase
  /\ UNCHANGED held
  /\ UNCHANGED otherThanConfig

\* Config.update(key, value): a key that is not in the defaults raises
\* KeyError; otherwise the value is set in the merged mapping and the user
\* document is rewritten.
Update ==
  /\ phase # "idle"
  /\ \E key \in Keys, value \in Values :
       LET c == LoadConfig(ConfigState)
           base == c.base_config.data
           merged == [k \in DOMAIN c.merged_config.data \cup {key} |->
                        IF k = key THEN value ELSE c.merged_config.data[k]]
       IN  IF key \notin DOMAIN base
           THEN /\ ConfigBecomes(c)
                /\ cop' = Operation("update", key, value, "KeyError",
                                    EmptyMapping, None)
                /\ phase' = IF phase = "reinit" THEN "reloaded" ELSE phase
                /\ UNCHANGED held
           ELSE /\ ConfigBecomes(
                     [c EXCEPT !.merged_config = Cached(merged),
                               !.user_doc = Doc(UserConfigData(merged, base))])
                /\ cop' = Operation("update", key, value, "ok", EmptyMapping,
                                    None)
                /\ phase' = "updated"
                /\ held' = merged
  /\ before' = Snapshot(ConfigState)
  /\ UNCHANGED otherThanConfig

ConfigNext == InitConfig \/ Get \/ Update

InitConfigured == ConfigInit /\ NormIdle /\ ProbeIdle /\ RunIdle /\ I18nIdle /\ LoggerIdle

SpecConfig == InitConfigured /\ [][ConfigNext]_vars

(***************************************************************************)
(* Vocabulary of the normalizer's properties.                              *)
(***************************************************************************)
\* A dependency line: its left-trimmed content begins with "- ".
IsDependencyLine(line) == startswith(lstrip(line), DashSpace)

\* The number of "=" of a line.
EqCount(line) == count(line, "=")

\* The leading whitespace of a line, as written.
LeadingWhitespace(line) == Take(line, Len(line) - Len(lstrip(line)))

\* Everything before the second "=" of a text that holds more than one:
\* the prefix that holds exactly one "=" and is followed by an "=".
BeforeSecondEq(s) ==
  Take(s, CHOOSE n \in 0..(Len(s) - 1) :
            count(Take(s, n), "=") = 1 /\ s[n + 1] = "=")

\* name or name=version of a specifier: the build component removed.
NameVersion(s) == IF count(s, "=") > 1 THEN BeforeSecondEq(s) ELSE s

\* The lines of a snapshot that are not prefix lines, in order.
KeptLines(text) ==
  SelectSeq(splitlines(text), LAMBDA l : ~startswith(l, PrefixKey))

Normalized == npc \in {"normalized", "renormalized"}

\* C1: normalizing a snapshot twice is idempotent: for every snapshot x,
\* normalize(normalize(x)) = normalize(x).
C1_Idempotent == npc = "renormalized" => renormalized = normalized

\* C1 witness: a snapshot with a prefix line and a dependency line with a
\* build component has been normalized twice.
C1_Witness ==
  /\ npc = "renormalized"
  /\ \E l \in Range(splitlines(snapshot)) : startswith(l, PrefixKey)
  /\ \E l \in Range(splitlines(snapshot)) :
        IsDependencyLine(l) /\ EqCount(l) > 1
  /\ normalized # snapshot
  /\ renormalized = normalized

\* C2: every line whose left-trimmed content begins with "- " and holds
\* more than one "=" is output truncated to everything before its second
\* "=", with its original leading indentation preserved exactly.
C2_IndentationPreserved ==
  Normalized =>
    LET kept == KeptLines(snapshot)
    IN  /\ Len(cleaned) = Len(kept)
        /\ \A i \in 1..Len(kept) :
              (IsDependencyLine(kept[i]) /\ EqCount(kept[i]) > 1) =>
                cleaned[i] =
                  LeadingWhitespace(kept[i]) \o BeforeSecondEq(lstrip(kept[i]))

\* C3: after normalization every dependency line has the form name or
\* name=version (at most one "="), in the returned lines and in the written
\* text, and each dependency keeps its name and version: only the text from
\* the second "=" on is removed.
C3_NameVersionOnly ==
  Normalized =>
    LET kept == KeptLines(snapshot)
    IN  /\ \A i \in 1..Len(cleaned) :
              IsDependencyLine(cleaned[i]) => EqCount(cleaned[i]) <= 1
        /\ \A l \in Range(splitlines(normalized)) :
              IsDependencyLine(l) => EqCount(l) <= 1
        /\ Len(cleaned) = Len(kept)
        /\ \A i \in 1..Len(kept) :
              IsDependencyLine(kept[i]) =>
                lstrip(cleaned[i]) = NameVersion(lstrip(kept[i]))

\* C3 witness: deps [f=1=b, f=1] have been normalized to deps [f=1, f=1].
C3_Witness ==
  /\ Normalized
  /\ snapshot = <<" ", "-", " ", "f", "=", "1", "=", "b", "\n",
                  " ", "-", " ", "f", "=", "1", "\n">>
  /\ normalized = <<" ", "-", " ", "f", "=", "1", "\n",
                    " ", "-", " ", "f", "=", "1", "\n">>

\* A line normalization has to rewrite: a dependency line with more than
\* one "=".
HasBuild(line) == IsDependencyLine(line) /\ EqCount(line) > 1

\* C18: the lines normalization returns are the input lines that do not
\* start with "prefix:", one for one and in the input order (no line is
\* added), and each of them that is not a dependency line with more than
\* one "=" is returned unchanged.
C18_OtherLinesUnchanged ==
  Normalized =>
    LET kept == KeptLines(snapshot)
    IN  /\ Len(cleaned) = Len(kept)
        /\ \A i \in 1..Len(kept) : ~HasBuild(kept[i]) => cleaned[i] = kept[i]

\* C18 witness: a snapshot with a prefix line and an indented line that is
\* not rewritten has been normalized to that line alone.
C18_Witness ==
  /\ Normalized
  /\ Len(splitlines(snapshot)) = 2
  /\ Len(cleaned) = 1
  /\ ~HasBuild(cleaned[1])
  /\ lstrip(cleaned[1]) # cleaned[1]
  /\ cleaned[1] \in Range(splitlines(snapshot))

(***************************************************************************)
(* Vocabulary of the properties of a run.                                  *)
(***************************************************************************)
\* A conda subcommand was invoked; was invoked and exited with status 0.
Called(cmd) == \E i \in 1..Len(calls) : calls[i].cmd = cmd

CalledOk(cmd) == \E i \in 1..Len(calls) : calls[i].cmd = cmd /\ calls[i].ok

\* The run is over, or only its finally block remains.
Exiting == pc \in {"finally", "exited"}

\* The launcher has overwritten the declaration in this run.
Saved == CalledOk("env export") /\ Exiting /\ exit_code = 0

\* A text has no prefix line and no dependency line with a build component.
Portable(text) ==
  \A l \in Range(splitlines(text)) :
    /\ ~startswith(l, PrefixKey)
    /\ IsDependencyLine(l) => EqCount(l) <= 1

\* C4: the content the launcher has written to the declaration has no line
\* starting with "prefix:" and no dependency line with more than one "=",
\* whatever the export returned.
C4_DeclarationPortable ==
  Saved => declaration.exists /\ Portable(declaration.text)

\* C4 witness: an export with a prefix line and a build component was
\* saved over the declaration by an install.
C4_Witness ==
  /\ Saved
  /\ Branch = "install"
  /\ ~Portable(env_export.stdout)
  /\ \E l \in Range(splitlines(env_export.stdout)) : startswith(l, PrefixKey)
  /\ declaration # declaration0
  /\ Portable(declaration.text)

\* C5: check_environment is true for a listing line "myenv *" and for
\* "myenv" followed only by trailing whitespace, false when the only
\* candidate line is "myenvfoo"; in general it is true iff some line,
\* trimmed, starts with the name followed by a space or an asterisk.
C5_ListedNameFound ==
  (ppc = "probed" /\ listing.ok) =>
    LET lines == Range(splitlines(listing.stdout))
    IN  /\ (probe_name \o <<" ", "*">>) \in lines => probe_result
        /\ (\E l \in lines :
              /\ Len(l) > Len(probe_name)
              /\ startswith(l, probe_name)
              /\ \A i \in (Len(probe_name) + 1)..Len(l) : l[i] \in Whitespace)
             => probe_result
        /\ (lines = {probe_name \o <<"f", "o", "o">>}) => ~probe_result
        /\ probe_result =
             \E l \in lines :
               \/ startswith(strip(l), probe_name \o <<" ">>)
               \/ startswith(strip(l), probe_name \o <<"*">>)

\* C6: the temporary normalized declaration file is absent from the
\* filesystem after the launcher process exits, on every exit path.
C6_TempFileRemoved == pc = "exited" => ~temp_file.exists

\* C7: an install or uninstall on an environment the probe reports as
\* non-existent exits with code 1 without invoking install, remove or
\* export and without modifying the declaration.
C7_FailFast ==
  (branches \cap {"install", "uninstall"} # {} /\ env_exists = "no") =>
    /\ Exiting
    /\ exit_code = 1
    /\ ~Called("install") /\ ~Called("remove") /\ ~Called("env export")
    /\ declaration = declaration0

\* C7 witness: an install run has exited after the listing, which
\* succeeded, did not show the environment.
C7_Witness ==
  /\ pc = "exited"
  /\ branches = {"install"}
  /\ env_listing.ok
  /\ env_exists = "no"
  /\ exit_code = 1

\* C8: in both launchers, if check_conda returns false the run aborts with
\* exit code 1, and no create, update, install, remove, export or run
\* command is invoked unless check_conda returned true earlier in the run.
C8_CondaPrerequisite ==
  /\ conda_ok = "no" => Exiting /\ exit_code = 1
  /\ \A i \in 1..Len(calls) :
       calls[i].cmd \in {"env create", "env update", "install", "remove",
                         "env export", "run"} =>
         \E j \in 1..(i - 1) : calls[j].cmd = "--version" /\ calls[j].ok

\* C8 witness: a run of the basic launcher has exited with 1 after
\* check_conda returned false, with no other command invoked.
C8_Witness ==
  /\ pc = "exited"
  /\ variant = "launchers"
  /\ conda_ok = "no"
  /\ exit_code = 1
  /\ Len(calls) = 1

\* The branch the precedence rule names for the arguments given.
BranchByPrecedence ==
  IF args.install # None THEN "install"
  ELSE IF args.uninstall # None THEN "uninstall"
  ELSE IF args.command # None THEN args.command
  ELSE "default"

\* C9: --install / --uninstall take precedence over the positional
\* command, which takes precedence over the default launch, and exactly
\* one branch runs, for every combination of the three.
C9_FlagsTakePrecedence ==
  (variant = "conda_launcher" /\ conda_ok = "yes" /\ pc # "dispatch") =>
    branches = {BranchByPrecedence}

\* The default flow: no explicit operation.
DefaultFlow == variant = "launchers" \/ branches = {"default"}

\* C10: in the default flow the environment is created exactly when
\* check_environment returned false (a failed listing included); a failed
\* creation is fatal (exit 1, no launch); the application is launched only
\* after the probe reported the environment or its creation succeeded.
C10_CreateThenLaunch ==
  DefaultFlow =>
    /\ env_exists = "no" => pc = "create" \/ Called("env create")
    /\ Called("env create") => env_exists = "no"
    /\ (Called("env list") /\ ~env_listing.ok) => env_exists = "no"
    /\ (Called("env create") /\ ~CalledOk("env create")) =>
         Exiting /\ exit_code = 1 /\ ~Called("run")
    /\ Called("run") => env_exists = "yes" \/ CalledOk("env create")

\* C10 witness: the listing failed, the environment was created, and the
\* application was launched.
C10_Witness ==
  /\ DefaultFlow
  /\ pc = "exited"
  /\ Called("env list") /\ ~env_listing.ok
  /\ CalledOk("env create")
  /\ CalledOk("run")
  /\ exit_code = 0

\* An install or an uninstall is running, and the conda command it is about.
PackageBranch == branches \cap {"install", "uninstall"} # {}

PackageCmd == IF "install" \in branches THEN "install" ELSE "remove"

PackageArg == IF "install" \in branches THEN args.install ELSE args.uninstall

\* C11: in an install or uninstall, the export is invoked only after the
\* install/remove of the package given succeeded, and the declaration is
\* overwritten only with the normalized export; the run exits 0 only if
\* install/remove, export and overwrite all succeeded; a failed
\* install/remove or a failed export ends the run with exit code 1 and the
\* declaration exactly as it was before the run.
C11_InstallThenSave ==
  PackageBranch =>
    /\ \A i \in 1..Len(calls) :
         calls[i].cmd = "env export" =>
           \E j \in 1..(i - 1) :
             calls[j] = Call(PackageCmd, <<PackageArg>>, TRUE)
    /\ declaration # declaration0 =>
         /\ CalledOk("env export")
         /\ declaration = File(SavedText(env_export.stdout))
    /\ (Exiting /\ exit_code = 0) =>
         /\ CalledOk(PackageCmd)
         /\ CalledOk("env export")
         /\ declaration = File(SavedText(env_export.stdout))
    /\ (Called(PackageCmd) /\ ~CalledOk(PackageCmd)) =>
         /\ Exiting /\ exit_code = 1
         /\ ~Called("env export")
         /\ declaration = declaration0
    /\ (Called("env export") /\ ~CalledOk("env export")) =>
         /\ Exiting /\ exit_code = 1
         /\ declaration = declaration0

\* C11 witness: an uninstall removed the package, the export failed, and
\* the run has exited with 1 with the declaration as it was.
C11_Witness ==
  /\ pc = "exited"
  /\ "uninstall" \in branches
  /\ CalledOk("remove")
  /\ Called("env export") /\ ~CalledOk("env export")
  /\ exit_code = 1
  /\ declaration = declaration0

\* The words of a command line, from word i on, that are none of the
\* launcher's own: not a command, not --install / --uninstall with its
\* package, not --update.
RECURSIVE UnrecognizedFrom(_, _, _)
UnrecognizedFrom(v, words, i) ==
  IF i > Len(words) THEN << >>
  ELSE IF v = "launchers"
       THEN IF words[i] = "--update"
            THEN UnrecognizedFrom(v, words, i + 1)
            ELSE <<words[i]>> \o UnrecognizedFrom(v, words, i + 1)
       ELSE IF words[i] \in {"--install", "--uninstall"}
            THEN UnrecognizedFrom(v, words, i + 2)
            ELSE IF words[i] \in Choices
                 THEN UnrecognizedFrom(v, words, i + 1)
                 ELSE <<words[i]>> \o UnrecognizedFrom(v, words, i + 1)

Unrecognized == UnrecognizedFrom(variant, argv, 1)

\* --install or --uninstall is given without a package.
PackageMissing ==
  \E i \in 1..Len(argv) :
    /\ argv[i] \in {"--install", "--uninstall"}
    /\ i = Len(argv) \/ argv[i + 1] \in OptionStrings

\* C12: for every command line, the launcher turns none away for a word
\* that is not its own, and the program it launches is given exactly the
\* words that are not the launcher's own, unmodified and in their order.
C12_UnknownArgsForwarded ==
  /\ (pc = "exited" /\ exit_code = 2) => PackageMissing
  /\ \A i \in 1..Len(calls) :
       calls[i].cmd = "run" => calls[i].arg = Unrecognized

\* The flow that ends in the launch: the basic launcher, or the full
\* launcher with no explicit operation selected.
LaunchFlow == variant = "launchers" \/ branches \subseteq {"default"}

\* C13: the launch command is invoked at most once per run; once the
\* launched program has returned the run ends, with exit code 0 if it
\* returned 0 and 1 otherwise; a failed conda check, creation or update
\* ends the run with exit code 1 and nothing launched; and a run of the
\* launch flow exits 0 only if the launched program returned 0.
C13_LaunchFailurePropagated ==
  /\ Cardinality({i \in 1..Len(calls) : calls[i].cmd = "run"}) <= 1
  /\ Called("run") =>
       /\ Exiting
       /\ exit_code = IF CalledOk("run") THEN 0 ELSE 1
  /\ \A i \in 1..Len(calls) :
       (calls[i].cmd \in {"--version", "env create", "env update"}
          /\ ~calls[i].ok) =>
         Exiting /\ exit_code = 1 /\ ~Called("run")
  /\ (Exiting /\ LaunchFlow /\ exit_code = 0) => CalledOk("run")

\* C13 witness: the basic launcher updated the environment, launched the
\* program once, the program failed, and the run has exited with 1.
C13_Witness ==
  /\ pc = "exited"
  /\ variant = "launchers"
  /\ CalledOk("env update")
  /\ Called("run") /\ ~CalledOk("run")
  /\ exit_code = 1

\* The run has taken the branch of an explicit operation of the full
\* launcher; the operations that save the environment.
ExplicitOperation == branches # {} /\ branches # {"default"}

SavingOperations == {"install", "uninstall", "save_environment"}

\* C20: in every run of either launcher the declaration differs from what
\* it was at the start only after a successful export in an install, an
\* uninstall or save_environment, so the default flow, update_environment,
\* --update and every run aborted before a successful export leave it
\* unchanged; and a run of an explicit operation never launches the
\* application.
C20_OnlySaveWrites ==
  /\ declaration # declaration0 =>
       /\ CalledOk("env export")
       /\ branches \subseteq SavingOperations /\ branches # {}
  /\ ExplicitOperation => ~Called("run")

\* C20 witness: update_environment updated the environment and the run
\* has exited with 0, nothing launched and the declaration as it was.
C20_Witness ==
  /\ pc = "exited"
  /\ branches = {"update_environment"}
  /\ CalledOk("env update")
  /\ exit_code = 0
  /\ ~Called("run")
  /\ declaration = declaration0

(***************************************************************************)
(* I18n: init_i18n, set_language and t, called in any order.               *)
(***************************************************************************)
\* The result r of _configure_languages takes effect.
Configured(r) ==
  /\ translations' = r.translations
  /\ current_language' = r.current
  /\ fallback_language' = r.fallback

\* I18n.init_i18n(locales_dir, language, fallback_language, logger):
\* _locales_dir is set first; a missing directory raises before the logger
\* is set; a language of None is the system's, a fallback of None is 'en'.
InitI18n ==
  /\ iop.op # "idle"
  /\ locales_dir' = "locales"
  /\ IF ~locales_exists
     THEN /\ iop' = I18nCall("init_i18n", None, "FileNotFoundError", None)
          /\ UNCHANGED <<i18n_logger, translations, current_language,
                         fallback_language>>
     ELSE /\ i18n_logger' = "logger"
          /\ \E language \in Codes \cup {None}, fallback \in Codes \cup {None},
                system \in SystemLanguages :
               LET r == configure_languages(
                          locales_exists, language_files, translations,
                          current_language, fallback_language,
                          IF language = None THEN system ELSE language,
                          IF fallback = None THEN DefaultLanguage ELSE fallback)
               IN  /\ Configured(r)
                   /\ iop' = I18nCall("init_i18n", None, r.outcome, None)
  /\ ibefore' = [current |-> current_language, fallback |-> fallback_language]
  /\ UNCHANGED <<locales_exists, language_files>>
  /\ UNCHANGED otherThanI18n

\* I18n.set_language(language, fallback_language).
SetLanguage ==
  /\ iop.op # "idle"
  /\ IF locales_dir = None
     THEN /\ iop' = I18nCall("set_language", None, "RuntimeError", None)
          /\ UNCHANGED <<translations, current_language, fallback_language>>
     ELSE \E language \in Codes, fallback \in Codes :
            LET r == configure_languages(
                       locales_exists, language_files, translations,
                       current_language, fallback_language, language,
                       fallback)
            IN  /\ Configured(r)
                /\ iop' = I18nCall("set_language", None, r.outcome, None)
  /\ ibefore' = [current |-> current_language, fallback |-> fallback_language]
  /\ UNCHANGED <<locales_exists, language_files, locales_dir, i18n_logger>>
  /\ UNCHANGED otherThanI18n

\* I18n.t(key).
Translate ==
  /\ iop.op # "idle"
  /\ \E key \in TranslationKeys :
       LET r == t(translations, current_language, fallback_language,
                  i18n_logger, key)
       IN  iop' = I18nCall("t", key, r.outcome, r.result)
  /\ ibefore' = [current |-> current_language, fallback |-> fallback_language]
  /\ UNCHANGED <<locales_exists, language_files, locales_dir, i18n_logger,
                 translations, current_language, fallback_language>>
  /\ UNCHANGED otherThanI18n

I18nNext == InitI18n \/ SetLanguage \/ Translate

InitI18nSpec ==
  I18nInit /\ NormIdle /\ ProbeIdle /\ RunIdle /\ ConfigIdle /\ LoggerIdle

SpecI18n == InitI18nSpec /\ [][I18nNext]_vars

(***************************************************************************)
(* Logger: init_logger and get_logger called in any order, and records     *)
(* logged through the stored logger.                                       *)
(***************************************************************************)
\* The body of init_logger once Logger._logger is found to be None: the
\* level is set and the console handlers are added; the file handler is
\* then created, which raises when the file cannot be opened; only at the
\* end is the logger stored.
Configure(name, level, file_path, opens) ==
  /\ logger_level' = [logger_level EXCEPT ![name] = level]
  /\ IF file_path # None /\ ~opens
     THEN /\ handlers' = [handlers EXCEPT ![name] = @ \o ConsoleHandlers]
          /\ failures' = failures + 1
          /\ UNCHANGED <<stored_logger, first_logger>>
     ELSE /\ handlers' =
               [handlers EXCEPT
                  ![name] = @ \o ConsoleHandlers \o
                            (IF file_path # None
                             THEN <<file_handler(level)>> ELSE << >>)]
          /\ stored_logger' = name
          /\ first_logger' = IF first_logger = None THEN name ELSE first_logger
          /\ UNCHANGED failures

\* Logger.init_logger(name, level, file_path).
InitLogger ==
  /\ lop.op # "idle"
  /\ \E name \in LoggerNames, level \in InitLevels, file_path \in FilePaths,
        opens \in BOOLEAN :
       IF stored_logger # None
       THEN /\ lop' = LoggerCall("init_logger", "ok", stored_logger)
            /\ UNCHANGED <<handlers, logger_level, stored_logger,
                           first_logger, failures>>
       ELSE /\ (file_path # None /\ ~opens) => failures < MaxFailures
            /\ Configure(name, level, file_path, opens)
            /\ lop' = IF file_path # None /\ ~opens
                      THEN LoggerCall("init_logger", "OSError", None)
                      ELSE LoggerCall("init_logger", "ok", name)
  /\ UNCHANGED emitted
  /\ UNCHANGED otherThanLogger

\* Logger.get_logger(): init_logger() with its defaults when no logger
\* is stored.
GetLogger ==
  /\ lop.op # "idle"
  /\ IF stored_logger # None
     THEN /\ lop' = LoggerCall("get_logger", "ok", stored_logger)
          /\ UNCHANGED <<handlers, logger_level, stored_logger, first_logger,
                         failures>>
     ELSE /\ Configure("logger", "DEBUG", None, TRUE)
          /\ lop' = LoggerCall("get_logger", "ok", "logger")
  /\ UNCHANGED emitted
  /\ UNCHANGED otherThanLogger

\* A record logged through the stored logger (logger.debug, ...,
\* logger.critical); the logger does not propagate to the root logger.
Log ==
  /\ stored_logger # None
  /\ \E level \in RecordLevels :
       emitted' =
         [level |-> level,
          handled |-> LevelNo(level) >= LevelNo(logger_level[stored_logger]),
          count |-> Deliveries(handlers[stored_logger],
                               logger_level[stored_logger], level)]
  /\ UNCHANGED <<handlers, logger_level, stored_logger, lop, first_logger,
                 failures>>
  /\ UNCHANGED otherThanLogger

LoggerNext == InitLogger \/ GetLogger \/ Log

InitLoggerSpec ==
  LoggerInit /\ NormIdle /\ ProbeIdle /\ RunIdle /\ ConfigIdle /\ I18nIdle

SpecLogger == InitLoggerSpec /\ [][LoggerNext]_vars

(***************************************************************************)
(* Properties of Config.                                                   *)
(***************************************************************************)
\* The keys of the defaults whose value in mapping m is not the default.
Overridden(m, base) ==
  {k \in DOMAIN base : k \in DOMAIN m /\ m[k] # base[k]}

\* Mapping m is mapping old with key set to value.
IsWith(m, old, key, value) ==
  /\ DOMAIN m = DOMAIN old \cup {key}
  /\ m[key] = value
  /\ \A k \in DOMAIN old \ {key} : m[k] = old[k]

\* C14: update(key, value) raises KeyError when key is not in the
\* defaults, and then the merged mapping and the user document are as
\* before; otherwise merged[key] = value with every other entry as
\* before, the defaults document is as before, and the user document holds
\* exactly the keys of the defaults whose merged value differs from the
\* default, with the merged value.
C14_UpdateWritesOverrides ==
  cop.op = "update" =>
    IF cop.key \notin DOMAIN before.base
    THEN /\ cop.outcome = "KeyError"
         /\ merged_config.data = before.merged
         /\ user_doc.data = before.user
    ELSE /\ cop.outcome = "ok"
         /\ IsWith(merged_config.data, before.merged, cop.key, cop.value)
         /\ base_doc.data = before.base
         /\ DOMAIN user_doc.data = Overridden(merged_config.data, before.base)
         /\ \A k \in DOMAIN user_doc.data :
              user_doc.data[k] = merged_config.data[k]

\* C14 witness: a key the user document overrode has been updated to its
\* default value and is no longer in the user document, which still holds
\* another override.
C14_Witness ==
  /\ cop.op = "update" /\ cop.outcome = "ok"
  /\ cop.key \in DOMAIN before.user
  /\ cop.value = before.base[cop.key]
  /\ cop.key \notin DOMAIN user_doc.data
  /\ user_doc.data # EmptyMapping

\* Mapping m is the defaults overlaid by the user's values.
IsOverlay(m, base, user) ==
  /\ DOMAIN m = DOMAIN base \cup DOMAIN user
  /\ \A k \in DOMAIN user : m[k] = user[k]
  /\ \A k \in DOMAIN base \ DOMAIN user : m[k] = base[k]

\* The cached mappings were loaded from the documents as they are now.
LoadedFromDocuments == phase \in {"none", "reloaded"}

\* C15: get() returns the merged mapping, which when loaded from the two
\* documents is the defaults overlaid by the user document; get(key)
\* raises KeyError exactly when key is not in the merged mapping, and
\* returns merged[key] otherwise.
C15_GetOverlay ==
  cop.op = "get" =>
    /\ merged_config.loaded
    /\ LoadedFromDocuments =>
         IsOverlay(merged_config.data, base_doc.data, user_doc.data)
    /\ cop.key = None => cop.outcome = "ok" /\ cop.all = merged_config.data
    /\ cop.key # None =>
         /\ cop.outcome = "KeyError" <=> cop.key \notin DOMAIN merged_config.data
         /\ cop.outcome = "ok" => cop.one = merged_config.data[cop.key]

\* C15 witness: get() has returned a mapping with a key of both documents
\* at the user's value and a key of the user document alone.
C15_Witness ==
  /\ cop.op = "get" /\ cop.key = None
  /\ \E k \in DOMAIN base_doc.data \cap DOMAIN user_doc.data :
       base_doc.data[k] # user_doc.data[k] /\ cop.all[k] = user_doc.data[k]
  /\ \E k \in DOMAIN user_doc.data \ DOMAIN base_doc.data :
       cop.all[k] = user_doc.data[k]

\* C19: after a successful update, re-initializing with the same two paths
\* and reloading gives a merged mapping equal to the one held right after
\* the update.
C19_UpdateRoundTrips ==
  phase = "reloaded" => merged_config.data = held

(***************************************************************************)
(* Properties of I18n.                                                     *)
(***************************************************************************)
\* The table of a language: what its file held when it was loaded; empty
\* for no language and for a language that is not loaded.
TableOf(code) ==
  IF code # None /\ code \in DOMAIN translations
  THEN translations[code] ELSE << >>

\* The entry of the active table, else of the fallback table, else the key.
Lookup(key) ==
  IF key \in DOMAIN TableOf(current_language)
  THEN TableOf(current_language)[key]
  ELSE IF key \in DOMAIN TableOf(fallback_language)
       THEN TableOf(fallback_language)[key]
       ELSE key

\* C16: once init_i18n has been called, after any further init_i18n and
\* set_language calls, t(key) returns the active table's entry for key if
\* there is one, else the fallback table's entry if there is one, else
\* the key; and a set_language call that fails leaves the active and the
\* fallback language as they were.
C16_TranslateFallsBack ==
  /\ (iop.op = "t" /\ locales_dir # None) =>
       iop.outcome = "ok" /\ iop.result = Lookup(iop.key)
  /\ (iop.op = "set_language" /\ iop.outcome # "ok") =>
       /\ current_language = ibefore.current
       /\ fallback_language = ibefore.fallback

(***************************************************************************)
(* Properties of Logger.                                                   *)
(***************************************************************************)
\* The number of handlers of a logger that write to a target.
HandlersTo(name, target) ==
  Cardinality({i \in 1..Len(handlers[name]) :
                 handlers[name][i].target = target})

\* C17: after any sequence of init_logger and get_logger calls, a call
\* that returns returns the logger the first initialization stored, which
\* is the logger stored; no logger has two handlers to the same console
\* stream; and a record the stored logger handles is written to exactly
\* one console stream, once: standard output if its level is below ERROR,
\* standard error otherwise.
C17_SingletonLogger ==
  /\ (lop.op \in {"init_logger", "get_logger"} /\ lop.outcome = "ok") =>
       lop.returned = first_logger /\ stored_logger = first_logger
  /\ \A n \in LoggerNames :
       HandlersTo(n, "stdout") <= 1 /\ HandlersTo(n, "stderr") <= 1
  /\ emitted.handled =>
       /\ emitted.count["stdout"] + emitted.count["stderr"] = 1
       /\ emitted.count["stdout"] = 1 <=>
            LevelNo(emitted.level) < LevelNo("ERROR")

=============================================================================
